---- MODULE Spec2Model ----
(***************************************************************************)
(* State-machine model of src/main.py: the YOLO detection API.             *)
(*                                                                         *)
(* Application state: model_config, current_model, translation_dict, the   *)
(* three module-level globals.  Startup: startup_event -> initialize_app   *)
(* -> load_model_config, load_model, load_translations.  Requests:         *)
(* predict (two atomic steps, split at `await file.read()`), health_check, *)
(* list_model, get_config, root.                                           *)
(*                                                                         *)
(* Floats are modelled in hundredths, as records [nan, v] so that the      *)
(* comparisons of a NaN threshold behave as Python's do.                   *)
(***************************************************************************)
EXTENDS Integers, Sequences, FiniteSets, TLC

(* ---------------------------- bounds ----------------------------------- *)
\* most boxes the engine returns for one request, over all result groups
MaxBoxes == 3
\* most result groups the engine returns for one request
MaxGroups == 2
\* number of request slots that may be in progress at once
MaxRequests == 2

(* --------------------------- value sets -------------------------------- *)
Absent == "<absent>"
None == "None"
YOLO == "YOLO"

ModelName == "yolov8n-oiv7.pt"
TranslateName == "OpenImagesV7.csv"

\* a Python float, in hundredths; nan = TRUE is float('nan')
Float(x) == [nan |-> FALSE, v |-> x]
NaN == [nan |-> TRUE, v |-> 0]
\* Python's < and > on floats: every comparison with NaN is False
FloatLt(a, b) == ~a.nan /\ ~b.nan /\ a.v < b.v
FloatGt(a, b) == ~a.nan /\ ~b.nan /\ a.v > b.v

\* thresholds a client may post: -0.01, 0.0, 1.0, 1.01 and nan
Thresholds == {Float(0 - 1), Float(0), Float(100), Float(101), NaN}
Languages == {"en", "ru", "de"}
\* UploadFile.content_type: a MIME string, or None when the part has none
ImageTypes == {"image/png"}
ContentTypes == ImageTypes \cup {"text/plain", None}

\* current_model.names: the engine's class-index-to-name vocabulary
ClassIds == {0, 1}
names == [c \in ClassIds |-> IF c = 0 THEN "Cat" ELSE "Dog"]
BoxConfs == {60, 90}
\* a raw box of the engine: box.cls, box.conf, box.xyxy
Boxes == [cls : ClassIds, conf : BoxConfs]

(* ----------------------- files on disk (environment) ------------------- *)
\* model_config.json
CfgFiles == {"missing", "no_model_name", "no_translate_name", "ok"}
\* models/<model_name>: absent, loadable but .to('cpu') raises, or loadable
ModelFiles == {"missing", "to_cpu_raises", "ok"}
\* translations/<translate_name>: a CSV file, absent or a sequence of rows;
\* a row is malformed when its class_number is not an integer
Row(en, ru, n) == [english |-> en, russian |-> ru, class_number |-> n, int_ok |-> TRUE]
BadRow(en, ru) == [english |-> en, russian |-> ru, class_number |-> 0, int_ok |-> FALSE]
CsvMissing == [exists |-> FALSE, rows |-> << >>]
CsvGood == [exists |-> TRUE, rows |-> << Row("Cat", "Kot", 0), Row("Cat", "Koshka", 0) >>]
CsvMalformed == [exists |-> TRUE, rows |-> << Row("Cat", "Kot", 0), BadRow("Dog", "Sobaka") >>]
TransFiles == {CsvMissing, CsvGood, CsvMalformed}

VARIABLES
    model_config,        \* global model_config
    current_model,       \* global current_model
    translation_dict,    \* global translation_dict
    init_pc,             \* position inside initialize_app
    stage,               \* return value of each load so far
    init_result,         \* what initialize_app did: returned or raised
    server,              \* lifecycle of the serving process
    reqs,                \* the predict requests in progress
    engine_call,         \* the engine invocation of the request just answered
    response             \* the response just produced, until delivered

vars == << model_config, current_model, translation_dict, init_pc, stage,
           init_result, server, reqs, engine_call, response >>

app_state == << model_config, current_model, translation_dict >>
startup_vars == << init_pc, stage, init_result >>

(* ----------------------------- dictionaries ---------------------------- *)
\* model_config is a dict with at most the keys model_name, translate_name
EmptyConfig == [model_name |-> Absent, translate_name |-> Absent]
HasKey(d, k) == d[k] # Absent
\* dict.get(k, default)
Get(d, k, default) == IF HasKey(d, k) THEN d[k] ELSE default

\* json.load of model_config.json
ParseConfig(f) ==
    [model_name |-> IF f = "no_model_name" THEN Absent ELSE ModelName,
     translate_name |-> IF f = "no_translate_name" THEN Absent ELSE TranslateName]

EmptyDict == [l \in {} |-> [russian |-> "", class_number |-> 0]]
\* translation_dict[english_name] = {...}: insert or overwrite
DictPut(d, k, val) == [l \in (DOMAIN d) \cup {k} |-> IF l = k THEN val ELSE d[l]]

\* the rows of the CSV read before the first malformed one
RECURSIVE GoodPrefixLen(_)
GoodPrefixLen(rows) ==
    IF rows = << >> \/ ~Head(rows).int_ok THEN 0
    ELSE 1 + GoodPrefixLen(Tail(rows))

\* the for-loop of load_translations over the first n rows
RECURSIVE ReadRows(_, _)
ReadRows(rows, n) ==
    IF n = 0 THEN EmptyDict
    ELSE DictPut(ReadRows(rows, n - 1), rows[n].english,
                 [russian |-> rows[n].russian, class_number |-> rows[n].class_number])

AllRowsOk(rows) == GoodPrefixLen(rows) = Len(rows)

(* ------------------------------ startup -------------------------------- *)
Stages == {"config", "model", "translations"}

Idle == [pc |-> "idle", language |-> "en", confidence |-> Float(0)]
NoCall == [calls |-> 0, conf |-> Float(0), raised |-> FALSE, results |-> << >>]
NoResponse == [kind |-> "none"]

Init ==
    /\ model_config = EmptyConfig
    /\ current_model = None
    /\ translation_dict = EmptyDict
    /\ init_pc = "load_model_config"
    /\ stage = [s \in Stages |-> "pending"]
    /\ init_result = "pending"
    /\ server = "starting"
    /\ reqs = [r \in 1..MaxRequests |-> Idle]
    /\ engine_call = NoCall
    /\ response = NoResponse

\* variant: initialize_app goes on to the next load whatever the last returned
NextPc_ignores_failure(s, ok) ==
    CASE s = "config" -> "load_model"
      [] s = "model" -> "load_translations"
      [] s = "translations" -> "done"

\* initialize_app: where control goes after the load of stage s returned ok
NextPc(s, ok) ==
    IF ~ok THEN "done"
    ELSE CASE s = "config" -> "load_model"
           [] s = "model" -> "load_translations"
           [] s = "translations" -> "done"

\* initialize_app: its return value once the load of stage s returned ok
NextResult(s, ok) ==
    IF ~ok THEN "False"
    ELSE IF s = "translations" THEN "True" ELSE "pending"

\* the bookkeeping of initialize_app after one load returned
Returned(s, ok) ==
    /\ stage' = [stage EXCEPT ![s] = IF ok THEN "ok" ELSE "fail"]
    /\ init_pc' = NextPc(s, ok)
    /\ init_result' = NextResult(s, ok)

\* load_model_config, finding file f as model_config.json
load_model_config(f) ==
    /\ server = "starting"
    /\ init_pc = "load_model_config"
    /\ IF f = "missing"
       THEN /\ UNCHANGED model_config
            /\ Returned("config", FALSE)
       ELSE /\ model_config' = ParseConfig(f)
            /\ Returned("config", TRUE)
    /\ UNCHANGED << current_model, translation_dict, server, reqs, engine_call, response >>

\* load_model, finding file f as models/<model_name>
load_model(f) ==
    /\ server = "starting"
    /\ init_pc = "load_model"
    /\ IF ~HasKey(model_config, "model_name") \/ f = "missing"
       THEN \* KeyError building model_path, or FileNotFoundError
            /\ UNCHANGED current_model
            /\ Returned("model", FALSE)
       ELSE \* current_model = YOLO(model_path), then current_model.to('cpu')
            /\ current_model' = YOLO
            /\ Returned("model", f = "ok")
    /\ UNCHANGED << model_config, translation_dict, server, reqs, engine_call, response >>

\* load_translations(model_config["translate_name"]), finding file f
load_translations(f) ==
    /\ server = "starting"
    /\ init_pc = "load_translations"
    /\ IF ~HasKey(model_config, "translate_name")
       THEN \* model_config["translate_name"] raises KeyError out of initialize_app
            /\ init_pc' = "done"
            /\ init_result' = "KeyError"
            /\ UNCHANGED << stage, translation_dict >>
       ELSE IF ~f.exists
       THEN /\ translation_dict' = EmptyDict
            /\ Returned("translations", FALSE)
       ELSE /\ translation_dict' = ReadRows(f.rows, GoodPrefixLen(f.rows))
            /\ Returned("translations", AllRowsOk(f.rows))
    /\ UNCHANGED << model_config, current_model, server, reqs, engine_call, response >>

\* startup_event once initialize_app is over: returns, or raises RuntimeError
\* (or lets the KeyError through) to the ASGI host
startup_event ==
    /\ server = "starting"
    /\ init_pc = "done"
    /\ server' = IF init_result = "True" THEN "serving" ELSE "startup_failed"
    /\ UNCHANGED << app_state, startup_vars, reqs, engine_call, response >>

\* The host that runs the application decides what a failed startup means:
\* it stops the process, or it goes on to dispatch requests to the handlers.
host_exits ==
    /\ server = "startup_failed"
    /\ server' = "exited"
    /\ UNCHANGED << app_state, startup_vars, reqs, engine_call, response >>

host_serves ==
    /\ server = "startup_failed"
    /\ server' = "serving"
    /\ UNCHANGED << app_state, startup_vars, reqs, engine_call, response >>

(* ----------------------- label translation ----------------------------- *)
\* variant: the check `language == 'ru'` is missing
get_label_translation_any_language(label, language) ==
    IF language = "en" \/ label \notin DOMAIN translation_dict THEN label
    ELSE translation_dict[label].russian

get_label_translation(label, language) ==
    IF language = "en" \/ label \notin DOMAIN translation_dict THEN label
    ELSE IF language = "ru" THEN translation_dict[label].russian
    ELSE label

(* ------------------------- the engine's results ------------------------ *)
\* one result of the engine: result.boxes is None, or a sequence of boxes
NoBoxes == [boxes_none |-> TRUE, boxes |-> << >>]
BoxSeqs == UNION {[1..k -> Boxes] : k \in 0..MaxBoxes}
Groups == {NoBoxes} \cup {[boxes_none |-> FALSE, boxes |-> b] : b \in BoxSeqs}

RECURSIVE TotalBoxes(_)
TotalBoxes(results) ==
    IF results = << >> THEN 0
    ELSE Len(Head(results).boxes) + TotalBoxes(Tail(results))

\* the sequences of k results that hold at most n boxes in total
RECURSIVE ResultsOf(_, _)
ResultsOf(k, n) ==
    IF k = 0 THEN {<< >>}
    ELSE UNION {{<< g >> \o rest : rest \in ResultsOf(k - 1, n - Len(g.boxes))} :
                g \in {x \in Groups : Len(x.boxes) <= n}}

\* what current_model(image_array, conf=...) may return
EngineResults == UNION {ResultsOf(k, MaxBoxes) : k \in 0..MaxGroups}

\* the results of a single image with at most one box
SingleResults == {r \in EngineResults : Len(r) <= 1 /\ TotalBoxes(r) <= 1}

\* what invoking the engine may do: raise, or return one of the results rs
EngineOutcomes(rs) ==
    {[raised |-> TRUE, results |-> << >>]} \cup {[raised |-> FALSE, results |-> x] : x \in rs}
SingleOutcomes == EngineOutcomes(SingleResults)
AllOutcomes == EngineOutcomes(EngineResults)

(* --------------------- predict: building detections -------------------- *)
\* the dict built for one box
Detection(box, language) ==
    [label |-> get_label_translation(names[box.cls], language),
     label_en |-> names[box.cls],
     confidence |-> box.conf,
     class_id |-> box.cls]

\* the inner loop: for j, box in enumerate(boxes)
RECURSIVE BoxesToDetections(_, _)
BoxesToDetections(boxes, language) ==
    IF boxes = << >> THEN << >>
    ELSE << Detection(Head(boxes), language) >> \o BoxesToDetections(Tail(boxes), language)

\* variant: only results[0] is read, as the annotation does
ProcessResults_first_only(results, language) ==
    IF results = << >> \/ Head(results).boxes_none THEN << >>
    ELSE BoxesToDetections(Head(results).boxes, language)

\* the outer loop: for i, result in enumerate(results)
RECURSIVE ProcessResults(_, _)
ProcessResults(results, language) ==
    IF results = << >> THEN << >>
    ELSE (IF Head(results).boxes_none THEN << >>
          ELSE BoxesToDetections(Head(results).boxes, language))
         \o ProcessResults(Tail(results), language)

\* insert d behind every element whose confidence is not smaller
RECURSIVE InsertDesc(_, _)
InsertDesc(sorted, d) ==
    IF sorted = << >> THEN << d >>
    ELSE IF Head(sorted).confidence >= d.confidence
         THEN << Head(sorted) >> \o InsertDesc(Tail(sorted), d)
         ELSE << d >> \o sorted

\* insert d in front of every element whose confidence is not greater
RECURSIVE InsertDescFront(_, _)
InsertDescFront(sorted, d) ==
    IF sorted = << >> THEN << d >>
    ELSE IF Head(sorted).confidence > d.confidence
         THEN << Head(sorted) >> \o InsertDescFront(Tail(sorted), d)
         ELSE << d >> \o sorted

\* variant: an ascending sort read backwards, which turns ties around
RECURSIVE SortByConfidence_reversed(_)
SortByConfidence_reversed(dets) ==
    IF dets = << >> THEN << >>
    ELSE InsertDescFront(SortByConfidence_reversed(SubSeq(dets, 1, Len(dets) - 1)),
                         dets[Len(dets)])

\* detections.sort(key=lambda x: x['confidence'], reverse=True): Python's
\* sort is stable, also with reverse=True
RECURSIVE SortByConfidence(_)
SortByConfidence(dets) ==
    IF dets = << >> THEN << >>
    ELSE InsertDesc(SortByConfidence(SubSeq(dets, 1, Len(dets) - 1)), dets[Len(dets)])

(* ----------------------- predict: the two steps ------------------------ *)
NoException == [type |-> "none", status_code |-> 0, detail |-> ""]
HTTPException(code, text) == [type |-> "HTTPException", status_code |-> code, detail |-> text]
Exception(t) == [type |-> t, status_code |-> 0, detail |-> ""]

\* the checks of predict before `await file.read()`: the exception raised, if any
PredictChecks(language, confidence, content_type) ==
    IF current_model = None
    THEN HTTPException(500, "model not loaded")
    ELSE IF language \notin {"en", "ru"}
    THEN HTTPException(400, "unsupported language")
    ELSE IF FloatLt(confidence, Float(0)) \/ FloatGt(confidence, Float(100))
    THEN HTTPException(400, "confidence must be between 0 and 1")
    ELSE IF content_type = None
    THEN Exception("AttributeError")
    ELSE IF content_type \notin ImageTypes
    THEN HTTPException(400, "file must be an image")
    ELSE NoException

\* the request a response answers
Request(language, confidence, content_type, decodable) ==
    [language |-> language, confidence |-> confidence,
     content_type |-> content_type, decodable |-> decodable]

\* except Exception as e: raise HTTPException(status_code=500, detail=str(e))
ExceptHandler(e, request) ==
    [kind |-> "predict", status_code |-> 500, cause |-> e, request |-> request,
     success |-> FALSE, detections |-> << >>, total_detections |-> 0,
     model_used |-> Absent, translate_file |-> Absent,
     language |-> Absent, confidence_threshold |-> Absent]

\* the dict predict returns (the annotated image and the timestamp, which no
\* decision reads, are left out)
SuccessResponse(detections, request) ==
    [kind |-> "predict", status_code |-> 200, cause |-> NoException, request |-> request,
     success |-> TRUE, detections |-> detections, total_detections |-> Len(detections),
     model_used |-> model_config["model_name"],
     translate_file |-> model_config["translate_name"],
     language |-> request.language, confidence_threshold |-> request.confidence]

\* predict after the engine returned results: build, sort, annotate, answer
AfterInference(results, request, render_ok) ==
    LET detections == SortByConfidence(ProcessResults(results, request.language))
    IN  IF results = << >>
        THEN ExceptHandler(Exception("IndexError"), request)
        ELSE IF ~render_ok
        THEN ExceptHandler(Exception("RenderError"), request)
        ELSE IF ~HasKey(model_config, "model_name") \/ ~HasKey(model_config, "translate_name")
        THEN ExceptHandler(Exception("KeyError"), request)
        ELSE SuccessResponse(detections, request)

\* variant: an engine error is swallowed and answered as "nothing detected"
AfterEngineError_swallowed(request) == SuccessResponse(<< >>, request)

\* predict when current_model(...) raised
AfterEngineError(request) == ExceptHandler(Exception("EngineError"), request)

\* first step of predict for request slot r: up to `await file.read()`
PredictBegin(r, language, confidence, content_type) ==
    /\ server = "serving"
    /\ response = NoResponse
    /\ reqs[r].pc = "idle"
    /\ LET e == PredictChecks(language, confidence, content_type)
       IN  IF e = NoException
           THEN /\ reqs' = [reqs EXCEPT ![r] = [pc |-> "reading", language |-> language,
                                                confidence |-> confidence]]
                /\ UNCHANGED << response, engine_call >>
           ELSE /\ \E decodable \in BOOLEAN :
                      response' = ExceptHandler(e, Request(language, confidence,
                                                           content_type, decodable))
                /\ engine_call' = NoCall
                /\ UNCHANGED reqs
    /\ UNCHANGED << app_state, startup_vars, server >>

\* the rest of predict once file.read() returned: decode, infer, build the
\* response; outcome is what the engine does when it is invoked
PredictBody(r, decodable, outcome, render_ok) ==
    LET request == Request(reqs[r].language, reqs[r].confidence, "image/png", decodable)
        call == [calls |-> 1, conf |-> reqs[r].confidence, raised |-> outcome.raised,
                 results |-> outcome.results]
    IN  IF ~decodable
        THEN /\ response' = ExceptHandler(Exception("UnidentifiedImageError"), request)
             /\ engine_call' = NoCall
        ELSE IF outcome.raised
        THEN /\ response' = AfterEngineError(request)
             /\ engine_call' = call
        ELSE /\ response' = AfterInference(outcome.results, request, render_ok)
             /\ engine_call' = call

\* variant: predict empties translation_dict, as a reload per request would
PredictFinish_reloads(r, outcomes) ==
    /\ server = "serving"
    /\ response = NoResponse
    /\ reqs[r].pc = "reading"
    /\ \E decodable \in BOOLEAN, outcome \in outcomes, render_ok \in BOOLEAN :
          PredictBody(r, decodable, outcome, render_ok)
    /\ reqs' = [reqs EXCEPT ![r] = Idle]
    /\ translation_dict' = EmptyDict
    /\ UNCHANGED << model_config, current_model, startup_vars, server >>

\* second step of predict for request slot r, the engine's outcome among outcomes
PredictFinish(r, outcomes) ==
    /\ server = "serving"
    /\ response = NoResponse
    /\ reqs[r].pc = "reading"
    /\ \E decodable \in BOOLEAN, outcome \in outcomes, render_ok \in BOOLEAN :
          PredictBody(r, decodable, outcome, render_ok)
    /\ reqs' = [reqs EXCEPT ![r] = Idle]
    /\ UNCHANGED << app_state, startup_vars, server >>

(* -------------------------- the read endpoints ------------------------- *)
health_check ==
    /\ server = "serving"
    /\ response = NoResponse
    /\ response' = [kind |-> "health",
                    status |-> IF current_model # None THEN "healthy" ELSE "degraded",
                    current_model |-> Get(model_config, "model_name", "none"),
                    translate_file |-> Get(model_config, "translate_name", "none"),
                    translations_loaded |-> Cardinality(DOMAIN translation_dict)]
    /\ UNCHANGED << app_state, startup_vars, server, reqs, engine_call >>

list_model ==
    /\ server = "serving"
    /\ response = NoResponse
    /\ response' = [kind |-> "model",
                    current_model |-> Get(model_config, "model_name", "none")]
    /\ UNCHANGED << app_state, startup_vars, server, reqs, engine_call >>

get_config ==
    /\ server = "serving"
    /\ response = NoResponse
    /\ response' = [kind |-> "config",
                    model_config |-> model_config,
                    translate_file |-> Get(model_config, "translate_name", "none"),
                    translations_loaded |-> Cardinality(DOMAIN translation_dict)]
    /\ UNCHANGED << app_state, startup_vars, server, reqs, engine_call >>

root ==
    /\ server = "serving"
    /\ response = NoResponse
    /\ response' = [kind |-> "root", message |-> "YOLO Object Detection API"]
    /\ UNCHANGED << app_state, startup_vars, server, reqs, engine_call >>

\* the host sends the response to the client
Deliver ==
    /\ response # NoResponse
    /\ response' = NoResponse
    /\ engine_call' = NoCall
    /\ UNCHANGED << app_state, startup_vars, server, reqs >>

Startup ==
    \/ \E f \in CfgFiles : load_model_config(f)
    \/ \E f \in ModelFiles : load_model(f)
    \/ \E f \in TransFiles : load_translations(f)
    \/ startup_event
    \/ host_exits
    \/ host_serves

\* The service with MaxRequests predict requests in progress at once, the
\* engine answering each with at most one box.
Next ==
    \/ Startup
    \/ \E r \in 1..MaxRequests, language \in Languages, confidence \in Thresholds,
          content_type \in ContentTypes :
          PredictBegin(r, language, confidence, content_type)
    \/ \E r \in 1..MaxRequests : PredictFinish(r, SingleOutcomes)
    \/ health_check
    \/ list_model
    \/ get_config
    \/ root
    \/ Deliver

Spec == Init /\ [][Next]_vars

\* The service answering one predict request at a time, the engine answering
\* with up to MaxGroups result groups and MaxBoxes boxes.
NextDetect ==
    \/ Startup
    \/ \E language \in Languages, confidence \in Thresholds, content_type \in ContentTypes :
          PredictBegin(1, language, confidence, content_type)
    \/ PredictFinish(1, AllOutcomes)
    \/ Deliver

SpecDetect == Init /\ [][NextDetect]_vars

(* ======================= properties of the service ===================== *)
IsPredict == response.kind = "predict"
Succeeded == IsPredict /\ response.success
Supported == {"en", "ru"}
\* 0 <= t <= 1 as a statement about a number: false of NaN
InUnitInterval(c) == ~c.nan /\ 0 <= c.v /\ c.v <= 100
\* t < 0 or t > 1 as a statement about a number
BelowOrAbove(c) == ~c.nan /\ (c.v < 0 \/ c.v > 100)
AllLoaded == \A s \in Stages : stage[s] = "ok"
SomeLoadFailed == \E s \in Stages : stage[s] = "fail"

\* C1: a predict request made while the engine is loaded, with an unsupported
\* language, a threshold outside [0,1] or a non-image content type, is
\* answered with status 400 and without invoking the engine.  (An upload
\* with no content type at all is left out: it fails on `.startswith`.)
C1_InvalidRequestAnswered400 ==
    (/\ IsPredict
     /\ current_model # None
     /\ \/ response.request.language \notin Supported
        \/ BelowOrAbove(response.request.confidence)
        \/ response.request.content_type \notin ImageTypes \cup {None})
    => (response.status_code = 400 /\ engine_call.calls = 0)

\* C2: after a startup in which one of the three loads failed, /health
\* answers `degraded`, never `healthy`.
C2_HealthDegradedAfterFailedLoad ==
    (response.kind = "health" /\ SomeLoadFailed) => response.status = "degraded"

\* C3: predict answers with success, or invokes the engine, only if the
\* configuration, the engine and the translation table all loaded.
C3_PredictOnlyWhenAllLoaded ==
    (IsPredict /\ (response.success \/ engine_call.calls > 0)) => AllLoaded

\* C6: with the engine loaded, a supported language and an image upload, the
\* request reaches the inference call iff 0 <= t <= 1; the threshold is
\* passed unchanged, and a threshold outside the interval is rejected with
\* the invalid-threshold error before the engine is invoked.
C6_InferenceIffThresholdInUnitInterval ==
    (/\ IsPredict
     /\ current_model # None
     /\ response.request.language \in Supported
     /\ response.request.content_type \in ImageTypes
     /\ response.request.decodable)
    => /\ (engine_call.calls > 0) <=> InUnitInterval(response.request.confidence)
       /\ engine_call.calls > 0 => engine_call.conf = response.request.confidence
       /\ ~InUnitInterval(response.request.confidence) =>
              response.cause = HTTPException(400, "confidence must be between 0 and 1")

\* labels a caller may pass: in the table, in the vocabulary only, in neither
LabelInputs == {"Cat", "Dog", "Bird"}
\* the lookup of the translation table, stated on its own
TableLookup(label, language) ==
    IF language = "ru" /\ label \in DOMAIN translation_dict
    THEN translation_dict[label].russian
    ELSE label

\* C4: get_label_translation returns the table's translated name exactly
\* when the language is 'ru' and the label is a key of the table, and the
\* label unchanged for 'en', for an absent label and for any other language.
C4_TranslationIsTableLookup ==
    \A label \in LabelInputs, language \in Languages :
        get_label_translation(label, language) = TableLookup(label, language)

\* a 'ru' request answered with one translated and one passed-through label
C4_Witness ==
    /\ Succeeded
    /\ response.request.language = "ru"
    /\ \E i \in DOMAIN response.detections :
          response.detections[i].label # response.detections[i].label_en
    /\ \E i \in DOMAIN response.detections :
          /\ response.detections[i].label = response.detections[i].label_en
          /\ response.detections[i].label_en \notin DOMAIN translation_dict

\* the boxes the engine returned, over all result groups, in its order
RECURSIVE RawBoxes(_)
RawBoxes(results) ==
    IF results = << >> THEN << >>
    ELSE Head(results).boxes \o RawBoxes(Tail(results))

\* the class indices of the detections with confidence c, in their order
DetectionClassesAt(dets, c) ==
    LET sel == SelectSeq(dets, LAMBDA x : x.confidence = c)
    IN  [i \in 1..Len(sel) |-> sel[i].class_id]
\* the class indices of the raw boxes with confidence c, in their order
BoxClassesAt(boxes, c) ==
    LET sel == SelectSeq(boxes, LAMBDA x : x.conf = c)
    IN  [i \in 1..Len(sel) |-> sel[i].cls]
\* C5: in a success response the detections are in non-increasing order of
\* confidence, and detections of equal confidence are in the order in which
\* the engine returned them.
C5_SortedDescendingAndStable ==
    Succeeded =>
        LET d == response.detections
            raw == RawBoxes(engine_call.results)
        IN  /\ \A i \in 1..(Len(d) - 1) : d[i].confidence >= d[i + 1].confidence
            /\ \A c \in BoxConfs : DetectionClassesAt(d, c) = BoxClassesAt(raw, c)

\* the engine's order was not descending, and two boxes of different classes tie
C5_Witness ==
    /\ Succeeded
    /\ LET raw == RawBoxes(engine_call.results)
       IN  /\ \E i \in 1..(Len(raw) - 1) : raw[i].conf < raw[i + 1].conf
           /\ \E i, j \in DOMAIN raw : i < j /\ raw[i].conf = raw[j].conf
                                       /\ raw[i].cls # raw[j].cls

\* the Detection the claim expects for a raw box
ExpectedDetection(box, language) ==
    [label |-> TableLookup(names[box.cls], language),
     label_en |-> names[box.cls],
     confidence |-> box.conf,
     class_id |-> box.cls]

Count(seq, x) == Cardinality({i \in DOMAIN seq : seq[i] = x})

\* C10: in a success response the detections are a permutation of the raw
\* boxes of all result groups, each with the engine's class index, the
\* vocabulary's label and that label's translation; total_detections is the
\* length of the array.
C10_DetectionsArePermutationOfRaw ==
    Succeeded =>
        LET d == response.detections
            raw == RawBoxes(engine_call.results)
        IN  /\ Len(d) = Len(raw)
            /\ response.total_detections = Len(d)
            /\ \A b \in Boxes :
                  Count(d, ExpectedDetection(b, response.request.language)) = Count(raw, b)

\* two result groups with boxes, in an order the sort has to change
C10_Witness ==
    /\ Succeeded
    /\ Len(engine_call.results) >= 2
    /\ \A i \in DOMAIN engine_call.results : Len(engine_call.results[i].boxes) >= 1
    /\ response.detections # ProcessResults(engine_call.results, response.request.language)

\* C7: when the engine invocation raises, the request ends with a 500
\* response that carries the cause, the engine was invoked once, and nothing
\* success-looking is returned; no failure of the pipeline is answered with
\* success or with detections.
C7_EngineErrorAnswered500 ==
    /\ engine_call.calls <= 1
    /\ engine_call.raised =>
          /\ IsPredict
          /\ response.status_code = 500
          /\ response.cause.type = "EngineError"
          /\ engine_call.calls = 1
    /\ (IsPredict /\ (engine_call.raised \/ response.cause # NoException)) =>
          /\ response.status_code = 500
          /\ ~response.success
          /\ response.detections = << >>
          /\ response.total_detections = 0

\* the engine raised while answering a request that passed every check
C7_Witness ==
    /\ IsPredict
    /\ engine_call.raised
    /\ response.status_code = 500

\* C8: the loads are attempted in the order configuration, engine,
\* translations, each only after the earlier ones succeeded; initialization
\* reports success iff all three succeeded; a load once made is not made again.
C8_StartupOrder ==
    /\ [](/\ stage["model"] # "pending" => stage["config"] = "ok"
          /\ stage["translations"] # "pending" => stage["model"] = "ok"
          /\ stage["translations"] = "fail" => stage["model"] # "pending"
          /\ init_result = "True" <=> AllLoaded)
    /\ [][\A s \in Stages : stage[s] # "pending" => stage'[s] = stage[s]]_vars

\* the translation load failed after the engine load had been made
C8_Witness ==
    /\ stage["translations"] = "fail"
    /\ stage["model"] = "ok"
    /\ init_result = "False"
    /\ init_pc = "done"

\* C9: model_config, current_model and translation_dict are written only by
\* the startup initialization; no step taken while the service is serving,
\* with requests in progress or not, changes them.
C9_StateWrittenOnlyAtStartup ==
    [][app_state' # app_state =>
          /\ server = "starting"
          /\ init_pc # "done"
          /\ \A r \in 1..MaxRequests : reqs[r].pc = "idle"]_vars

\* one predict request is answered while another is waiting for its upload
C9_Witness ==
    /\ Succeeded
    /\ \E r \in 1..MaxRequests : reqs[r].pc = "reading"

====
